---- MODULE Spec2Model ----
(***************************************************************************)
(* BOOKFORGE: the asynchronous book-generation workflow.                   *)
(*                                                                         *)
(*  - the dashboard's generateBook handler (plan branch, job start, status *)
(*    polling loop with timeout, catch / local fallback, completion);      *)
(*  - the book_jobs table (column checks and row level security policies)  *)
(*    with the writers that may change a job row.                          *)
(*                                                                         *)
(*  - the generation backend the dashboard talks to (Plan Gate, Job Store, *)
(*    Pipeline Runner, status endpoint), as the specification describes it.*)
(*                                                                         *)
(*  - the route proxy that guards the pages, the Stripe webhook and the     *)
(*    monthly credit reset, which write the profiles and subscriptions     *)
(*    tables.                                                              *)
(*                                                                         *)
(* The specifications share the variables: Spec drives the dashboard       *)
(* against every answer a server can give, JobSpec drives the book_jobs    *)
(* table under every writer, FlowSpec runs the dashboard against the       *)
(* backend, ProxySpec sends page requests through the route proxy and      *)
(* BillingSpec delivers webhook events, reset requests and credit use.     *)
(***************************************************************************)
EXTENDS Integers, Sequences, FiniteSets, TLC

VARIABLES
    production,          \* process.env.NODE_ENV === "production"
    authLoading,         \* Dashboard state: authLoading
    plan,                \* Dashboard state: plan
    step,                \* Dashboard state: step
    research,            \* Dashboard state: research (none is null)
    selectedOpportunity, \* Dashboard state: selectedOpportunity is non-null
    generationProgress,  \* Dashboard state: generationProgress
    generationStep,      \* Dashboard state: generationStep
    generatedBook,       \* Dashboard state: generatedBook (<<>> is null)
    error,               \* Dashboard state: error (Null or a message)
    pc,                  \* position of the running generateBook call
    animIdx,             \* index into steps of the animation loop
    runPlan,             \* plan as captured by the generateBook closure
    payload,             \* request body built by generateBook (<<>> before)
    path,                \* endpoint the generation request was sent to
    jobId,               \* job.job_id received from generate-async
    now,                 \* Date.now(), in ms since generateBook was invoked
    startTime,           \* startTime of the polling loop
    seen,                \* what the loop read from the last status body
    data,                \* the local `data` of generateBook (<<>> unset)
    thrown,              \* message of the error thrown inside the try block
    cause,               \* what made the try block throw
    jobs,                \* public.book_jobs: job id -> <<>> or <<row>>
    session,             \* auth.uid() of the signed-in connection
    runner,              \* Pipeline Runner executions, per job id
    charged,             \* credit deductions made, per job id
    inline,              \* the pipeline run inside a synchronous request
    sent,                \* requests issued by the running generateBook call
    profiles,            \* public.profiles: user id -> row
    subscriptions,       \* public.subscriptions: subscription id -> <<>> or <<row>>
    exchange             \* the last HTTP request handled and its response

vars == <<production, authLoading, plan, step, research, selectedOpportunity,
          generationProgress, generationStep, generatedBook, error, pc,
          animIdx, runPlan, payload, path, jobId, now, startTime, seen,
          data, thrown, cause, jobs, session, runner, charged, inline, sent,
          profiles, subscriptions, exchange>>

clientVars == <<production, authLoading, plan, step, research,
                selectedOpportunity, generationProgress, generationStep,
                generatedBook, error, pc, animIdx, runPlan, payload, path,
                jobId, now, startTime, seen, data, thrown, cause, sent>>

siteVars == <<profiles, subscriptions, exchange>>

serverVars == <<jobs, session, runner, charged, inline, siteVars>>

backendVars == <<runner, charged, inline, siteVars>>

Null == "<null>"

Min(a, b) == IF a < b THEN a ELSE b
Max(a, b) == IF a > b THEN a ELSE b

Plans == {"starter", "pro", "enterprise"}
Statuses == {"queued", "running", "completed", "failed"}
Terminal == {"completed", "failed"}

Users == {"u1", "u2"}

\* rows of book_jobs the model holds at most
MaxJobs == 1
JobIds == 1..MaxJobs

----------------------------------------------------------------------------
(* Values the environment supplies *)

\* progress column values used by the model (the column admits 0..100)
ProgressValues == {0, 50, 100}
\* step column values
StepValues == {Null, "Writing chapters..."}
\* error column values of a job
ErrorValues == {Null, "Outline generation failed"}
\* result payloads: generation notes, the plan the server used, the cover
ServerTitle == "Generated Book"
CoverUrl == "https://cdn/cover.png"
CoverNote == "Cover image skipped."
ResultValues ==
    { [title |-> ServerTitle, generation_notes |-> <<>>, plan_used |-> Null,
       cover_image_url |-> CoverUrl],
      [title |-> ServerTitle, generation_notes |-> <<CoverNote>>,
       plan_used |-> "starter", cover_image_url |-> Null] }
\* result_json as delivered: null or a payload
MaybeResult == {<<>>} \cup {<<r>> : r \in ResultValues}
\* body of the job status endpoint
StatusResponses ==
    [status : Statuses, progress : ProgressValues, step : StepValues,
     result : MaybeResult, error : ErrorValues]
\* text of a non-ok generation response
ErrTexts == {"", "Insufficient credits"}
\* job_id values in the generate-async response
JobIdValues == {"", "job-1"}

\* what a request can be answered with: the request rejects (no response),
\* a non-ok response with its text, or an ok response with its JSON body
Rejected == [kind |-> "reject", text |-> "", body |-> <<>>]
NotOk(txt) == [kind |-> "error", text |-> txt, body |-> <<>>]
Ok(b) == [kind |-> "ok", text |-> "", body |-> <<b>>]
\* answers to POST /v1/books/generate-async; the body is the job_id
StartAnswers ==
    {Rejected} \cup {NotOk(e) : e \in ErrTexts} \cup {Ok(id) : id \in JobIdValues}
\* the part of a status body the dashboard reads: status, progress, step,
\* result only of a completed job, error only of a failed one
Relevant(s) ==
    [s EXCEPT !.result = IF s.status = "completed" THEN @ ELSE <<>>,
              !.error = IF s.status = "failed" THEN @ ELSE Null]
\* answers to GET /v1/books/jobs/{id}; a non-ok text is not read
StatusAnswers ==
    {Rejected, NotOk("")} \cup {Ok(Relevant(s)) : s \in StatusResponses}
\* answers to POST /api/books/generate; the body is null or the payload
SyncAnswers ==
    {Rejected} \cup {NotOk(e) : e \in ErrTexts} \cup {Ok(r) : r \in MaybeResult}

----------------------------------------------------------------------------
(* generateBook: constants and pure parts *)

timeoutMs == 15 * 60 * 1000
PollDelayMs == 1800
AnimDelayMs == 800

\* extra time a status request can take on top of the poll delay: none, or
\* MaxSlowPolls poll delays
MaxSlowPolls == 249
Latencies == {0, MaxSlowPolls * PollDelayMs}
MaxLatency == MaxSlowPolls * PollDelayMs

StatusReadMessage == "Could not read generation status"
TimeoutMessageAsStatusRead == StatusReadMessage
TimeoutMessage == "Generation timed out. Please try again."
NetworkMessage == "Failed to fetch"
SessionMessage == "Your session expired. Please sign in again."
FallbackPrefix == "Using local demo fallback: "
SuccessStep == "Book generated successfully!"

steps ==
    << [label |-> "Analyzing market data...", progress |-> 15],
       [label |-> "Building book structure...", progress |-> 35],
       [label |-> "Writing Chapter 1...", progress |-> 60],
       [label |-> "Generating Amazon listing...", progress |-> 80],
       [label |-> "Creating cover prompt...", progress |-> 95] >>

UseAsyncForEveryPlan(p) == TRUE
UseAsync(p) == p = "pro" \/ p = "enterprise"

GenerateFullBook(p) == p = "pro" \/ p = "enterprise"

GenerateCoverImage(p) == p = "pro" \/ p = "enterprise"

GenerateAudiobook(p) == FALSE

Payload(p) ==
    [plan |-> p,
     generate_full_book |-> GenerateFullBook(p),
     generate_cover_image |-> GenerateCoverImage(p),
     generate_audiobook |-> GenerateAudiobook(p)]

ClampProgress(p) == Min(99, Max(p, 10))

TimedOutOperandsSwapped(t, start) == start - t > timeoutMs
TimedOut(t, start) == t - start > timeoutMs

\* the fields of a status body the loop reads: result only of a completed
\* job, error only of a failed one
NoBody == [status |-> "none", result |-> <<>>, error |-> Null]
Read(s) ==
    [status |-> s.status,
     result |-> IF s.status = "completed" THEN s.result ELSE <<>>,
     error |-> IF s.status = "failed" THEN s.error ELSE Null]

\* a || b on strings
OrElseIgnoringLeft(a, b) == b
OrElse(a, b) == IF a = Null \/ a = "" THEN b ELSE a

\* generationNotes.join(" ")
JoinNotesDropped(notes) == ""
RECURSIVE JoinNotes(_)
JoinNotes(notes) ==
    IF Len(notes) = 0 THEN ""
    ELSE IF Len(notes) = 1 THEN notes[1]
    ELSE notes[1] \o " " \o JoinNotes(Tail(notes))

MockTitle == "Blood Moon: A Fated Mates Paranormal Romance"
mockData ==
    [title |-> MockTitle, generation_notes |-> <<>>, plan_used |-> Null,
     cover_image_url |-> Null]

\* a pipeline execution: how many runs of it are active, how many were
\* launched, the stage it is at, what it has gathered, how it ended
NoRun ==
    [active |-> 0, launched |-> 0, stage |-> 0, notes |-> <<>>,
     cover |-> Null, req |-> <<>>, outcome |-> "none", error |-> Null]

\* no request has been issued by the generateBook call yet: the number of
\* generation requests posted, the job asked for by the last status request
NoneSent == [posts |-> 0, polled |-> <<>>]

\* public.profiles: plan default 'starter', credits_remaining default 1,
\* stripe_customer_id null
DefaultProfile ==
    [plan |-> "starter", credits_remaining |-> 1, stripe_customer_id |-> Null]

\* stripe_subscription_id values
SubscriptionIds == {"sub_1"}

\* no HTTP request has been handled yet
NoExchange == [route |-> "none"]

----------------------------------------------------------------------------
(* Initial state: the Dashboard component as mounted, empty tables *)

Init ==
    /\ production \in BOOLEAN
    /\ authLoading = TRUE
    /\ plan = "starter"
    /\ step = "idle"
    /\ research = "none"
    /\ selectedOpportunity = FALSE
    /\ generationProgress = 0
    /\ generationStep = ""
    /\ generatedBook = <<>>
    /\ error = Null
    /\ pc = "none"
    /\ animIdx = 0
    /\ runPlan = "starter"
    /\ payload = <<>>
    /\ path = "none"
    /\ jobId = ""
    /\ now = 0
    /\ startTime = 0
    /\ seen = NoBody
    /\ data = <<>>
    /\ thrown = Null
    /\ cause = "none"
    /\ jobs = [j \in JobIds |-> <<>>]
    /\ session = "u1"
    /\ runner = [j \in JobIds |-> NoRun]
    /\ charged = [j \in JobIds |-> 0]
    /\ inline = NoRun
    /\ sent = NoneSent
    /\ profiles = [u \in Users |-> DefaultProfile]
    /\ subscriptions = [s \in SubscriptionIds |-> <<>>]
    /\ exchange = NoExchange

----------------------------------------------------------------------------
(* How the try block of generateBook is left *)

\* lines 453-487: data is in hand; err is the error shown so far
Complete(d, err) ==
    /\ data' = <<d>>
    /\ generatedBook' = <<d>>
    /\ plan' = IF d.plan_used # Null THEN d.plan_used ELSE plan
    /\ error' = IF Len(d.generation_notes) > 0
                   THEN JoinNotes(d.generation_notes) ELSE err
    /\ generationProgress' = 100
    /\ generationStep' = SuccessStep
    /\ pc' = "finishing"
    /\ now' = 0
    /\ startTime' = 0
    /\ UNCHANGED step

\* line 453 with data null: data.outline throws outside the try block
Crash(prog, gstep) ==
    /\ data' = <<>>
    /\ pc' = "crashed"
    /\ generationProgress' = prog
    /\ generationStep' = gstep
    /\ now' = 0
    /\ startTime' = 0
    /\ UNCHANGED <<generatedBook, plan, error, step>>

\* the try block received a body: null crashes, a payload completes
ReceiveResultField(r, prog, gstep) ==
    /\ thrown' = Null
    /\ cause' = "none"
    /\ Crash(prog, gstep)
Receive(r, prog, gstep) ==
    /\ thrown' = Null
    /\ cause' = "none"
    /\ IF r = <<>> THEN Crash(prog, gstep) ELSE Complete(r[1], error)

\* lines 408-451: an error with message msg was thrown inside the try block
Throw(msg, cse, prog, gstep) ==
    /\ thrown' = msg
    /\ cause' = cse
    /\ IF production
         THEN /\ error' = msg
              /\ step' = "research_done"
              /\ pc' = "none"
              /\ generationProgress' = prog
              /\ generationStep' = gstep
              /\ data' = <<>>
              /\ now' = 0
              /\ startTime' = 0
              /\ UNCHANGED <<generatedBook, plan>>
         ELSE Complete(mockData, FallbackPrefix \o msg)

----------------------------------------------------------------------------
(* Dashboard handlers *)

\* useEffect / loadUser: the profile's plan is read, the page leaves loading
loadUser ==
    /\ authLoading
    /\ \E p \in Plans : plan' = p
    /\ authLoading' = FALSE
    /\ UNCHANGED <<sent, production, step, research, selectedOpportunity,
                   generationProgress, generationStep, generatedBook, error,
                   pc, animIdx, runPlan, payload, path, jobId, now, startTime,
                   seen, data, thrown, cause, serverVars>>

\* runResearch up to its await
runResearchStart ==
    /\ ~authLoading
    /\ step = "idle"
    /\ step' = "researching"
    /\ error' = Null
    /\ UNCHANGED <<sent, production, authLoading, plan, research,
                   selectedOpportunity, generationProgress, generationStep,
                   generatedBook, pc, animIdx, runPlan, payload, path, jobId,
                   now, startTime, seen, data, thrown, cause, serverVars>>

\* runResearch after its await: the API's data is stored, or, when the
\* request failed, the catch block stores mockResearch and sets no error
runResearchDone ==
    /\ step = "researching"
    /\ \E ok \in BOOLEAN : research' = IF ok THEN "api" ELSE "mock"
    /\ selectedOpportunity' = TRUE
    /\ step' = "research_done"
    /\ UNCHANGED <<sent, production, authLoading, plan, generationProgress,
                   generationStep, generatedBook, error, pc, animIdx, runPlan,
                   payload, path, jobId, now, startTime, seen, data,
                   thrown, cause, serverVars>>

\* the Back button of the research_done view
backToIdle ==
    /\ ~authLoading
    /\ step = "research_done"
    /\ research # "none"
    /\ step' = "idle"
    /\ UNCHANGED <<sent, production, authLoading, plan, research,
                   selectedOpportunity, generationProgress, generationStep,
                   generatedBook, error, pc, animIdx, runPlan, payload, path,
                   jobId, now, startTime, seen, data, thrown, cause,
                   serverVars>>

\* the Create Another Book button of the done view
createAnotherBook ==
    /\ ~authLoading
    /\ step = "done"
    /\ generatedBook # <<>>
    /\ step' = "idle"
    /\ research' = "none"
    /\ generatedBook' = <<>>
    /\ error' = Null
    /\ UNCHANGED <<sent, production, authLoading, plan, selectedOpportunity,
                   generationProgress, generationStep, pc, animIdx, runPlan,
                   payload, path, jobId, now, startTime, seen, data,
                   thrown, cause, serverVars>>

----------------------------------------------------------------------------
(* generateBook, one action per stretch between two awaits *)

\* lines 293-305: the button is shown in the research_done view only
generateBookStart ==
    /\ ~authLoading
    /\ step = "research_done"
    /\ research # "none"
    /\ selectedOpportunity
    /\ step' = "generating"
    /\ generationProgress' = 0
    /\ error' = Null
    /\ pc' = "anim"
    /\ animIdx' = 1
    /\ runPlan' = plan
    /\ payload' = <<>>
    /\ path' = "none"
    /\ jobId' = ""
    /\ now' = 0
    /\ startTime' = 0
    /\ seen' = NoBody
    /\ data' = <<>>
    /\ thrown' = Null
    /\ cause' = "none"
    /\ sent' = NoneSent
    /\ UNCHANGED <<production, authLoading, plan, research,
                   selectedOpportunity, generationStep, generatedBook, serverVars>>

\* lines 307-311: one round of the step animation
animateStep ==
    /\ pc = "anim"
    /\ generationStep' = steps[animIdx].label
    /\ generationProgress' = steps[animIdx].progress
    /\ now' = now + AnimDelayMs
    /\ IF animIdx = Len(steps)
         THEN pc' = "session" /\ UNCHANGED animIdx
         ELSE animIdx' = animIdx + 1 /\ UNCHANGED pc
    /\ UNCHANGED <<sent, production, authLoading, plan, step, research,
                   selectedOpportunity, generatedBook, error, runPlan,
                   payload, path, jobId, startTime, seen, data, thrown,
                   cause, serverVars>>

\* lines 315-342: the session is read and the payload built
getSession ==
    /\ pc = "session"
    /\ \E hasToken \in BOOLEAN :
         IF hasToken
           THEN /\ payload' = <<Payload(runPlan)>>
                /\ pc' = "request"
                /\ UNCHANGED <<plan, step, generationProgress, generationStep,
                               generatedBook, error, now, startTime, data,
                               thrown, cause>>
           ELSE /\ Throw(SessionMessage, "session", generationProgress,
                         generationStep)
                /\ UNCHANGED payload
    /\ UNCHANGED <<sent, production, authLoading, research, selectedOpportunity,
                   animIdx, runPlan, path, jobId, seen, serverVars>>

\* line 360: !job?.job_id
MissingJobId(id) == id = ""

\* lines 345 and 393: one POST that asks the backend to generate a book
Posted(log) == [log EXCEPT !.posts = @ + 1]

\* line 371: the job whose status is fetched, /api/books/jobs/${job.job_id}
StatusUrlWithoutJob(id) == ""
StatusUrl(id) == id

\* lines 344-363: the async start request, answered with ans
startAsyncAnswered(ans) ==
    /\ pc = "request"
    /\ UseAsync(runPlan)
    /\ path' = "generate-async"
    /\ sent' = Posted(sent)
    /\ CASE ans.kind = "reject" ->
              /\ Throw(NetworkMessage, "start_failed", generationProgress,
                       generationStep)
              /\ UNCHANGED jobId
         [] ans.kind = "error" ->
              /\ Throw(OrElse(ans.text, "Generation start failed"),
                       "start_failed", generationProgress, generationStep)
              /\ UNCHANGED jobId
         [] OTHER ->
              IF MissingJobId(ans.body[1])
                THEN /\ Throw("Invalid generation job response",
                              "start_failed", generationProgress,
                              generationStep)
                     /\ UNCHANGED jobId
                ELSE /\ jobId' = ans.body[1]
                     /\ startTime' = now
                     /\ pc' = "poll"
                     /\ UNCHANGED <<plan, step, generationProgress,
                                    generationStep, generatedBook, error, now,
                                    data, thrown, cause>>
    /\ UNCHANGED <<production, authLoading, research, selectedOpportunity,
                   animIdx, runPlan, payload, seen>>

\* the start request against any server
startAsync ==
    \E ans \in StartAnswers :
        startAsyncAnswered(ans) /\ UNCHANGED serverVars

\* lines 365-370: the top of the polling loop
pollWait ==
    /\ pc = "poll"
    /\ IF TimedOut(now, startTime)
         THEN Throw(TimeoutMessage, "timeout", generationProgress,
                    generationStep)
         ELSE /\ now' = now + PollDelayMs
              /\ pc' = "fetch"
              /\ UNCHANGED <<plan, step, generationProgress, generationStep,
                             generatedBook, error, startTime, data, thrown,
                             cause>>
    /\ UNCHANGED <<sent, production, authLoading, research, selectedOpportunity,
                   animIdx, runPlan, payload, path, jobId, seen, serverVars>>

\* lines 379-382: what a status body does to the display
ShownProgress(s) == ClampProgress(s.progress)
ShownStep(s) == IF s.step # Null /\ s.step # "" THEN s.step ELSE generationStep

\* lines 371-391: one status request, answered with ans; a body that is
\* not terminal is followed by the next round, lat ms later
fetchStatusAnswered(ans, lats) ==
    /\ pc = "fetch"
    /\ sent' = [sent EXCEPT !.polled = <<StatusUrl(jobId)>>]
    /\ CASE ans.kind = "reject" ->
              /\ Throw(NetworkMessage, "fetch_failed", generationProgress,
                       generationStep)
              /\ UNCHANGED seen
         [] ans.kind = "error" ->
              /\ Throw(StatusReadMessage, "fetch_failed", generationProgress,
                       generationStep)
              /\ UNCHANGED seen
         [] OTHER ->
              LET s == ans.body[1] IN
              /\ seen' = Read(s)
              /\ CASE s.status = "completed" ->
                        Receive(s.result, ShownProgress(s), ShownStep(s))
                   [] s.status = "failed" ->
                        Throw(OrElse(s.error, "Generation failed"),
                              "job_failed", ShownProgress(s), ShownStep(s))
                   [] OTHER ->
                        /\ generationProgress' = ShownProgress(s)
                        /\ generationStep' = ShownStep(s)
                        /\ \E lat \in lats : now' = now + lat
                        /\ pc' = "poll"
                        /\ UNCHANGED <<plan, step, generatedBook, error,
                                       startTime, data, thrown, cause>>
    /\ UNCHANGED <<production, authLoading, research, selectedOpportunity,
                   animIdx, runPlan, payload, path, jobId>>

\* the status request against any server
fetchStatus ==
    \E ans \in StatusAnswers :
        fetchStatusAnswered(ans, Latencies) /\ UNCHANGED serverVars

\* lines 392-407: the synchronous request, answered with ans
startSyncAnswered(ans) ==
    /\ pc = "request"
    /\ ~UseAsync(runPlan)
    /\ path' = "generate"
    /\ sent' = Posted(sent)
    /\ CASE ans.kind = "reject" ->
              Throw(NetworkMessage, "sync_failed", generationProgress,
                    generationStep)
         [] ans.kind = "error" ->
              Throw(OrElse(ans.text, "Generation failed"), "sync_failed",
                    generationProgress, generationStep)
         [] OTHER ->
              Receive(ans.body[1], generationProgress, generationStep)
    /\ UNCHANGED <<production, authLoading, research, selectedOpportunity,
                   animIdx, runPlan, payload, jobId, seen>>

\* the synchronous request against any server
startSync ==
    \E ans \in SyncAnswers :
        startSyncAnswered(ans) /\ UNCHANGED serverVars

\* lines 487-488: the last wait, then the done view
finishDone ==
    /\ pc = "finishing"
    /\ step' = "done"
    /\ pc' = "none"
    /\ UNCHANGED <<sent, production, authLoading, plan, research,
                   selectedOpportunity, generationProgress, generationStep,
                   generatedBook, error, animIdx, runPlan, payload, path,
                   jobId, now, startTime, seen, data, thrown, cause,
                   serverVars>>

GenerateBookStep ==
    \/ animateStep
    \/ getSession
    \/ startAsync
    \/ pollWait
    \/ fetchStatus
    \/ startSync
    \/ finishDone

Next ==
    \/ loadUser
    \/ runResearchStart
    \/ runResearchDone
    \/ backToIdle
    \/ createAnotherBook
    \/ generateBookStart
    \/ GenerateBookStep

Spec == Init /\ [][Next]_vars

\* an async function's continuation runs once its await settles
FairSpec == Spec /\ WF_vars(GenerateBookStep)

----------------------------------------------------------------------------
(* Claims about generateBook *)

InPollLoop == pc \in {"poll", "fetch"}

\* C1: when the polled job never becomes completed or failed the polling
\* loop still ends: at the top of the loop with more than 15 minutes elapsed
\* since polling started, the run leaves the loop with the timeout error,
\* which the catch block turns into the displayed error (never an unhandled
\* exception); the loop is never inside an iteration that began after the
\* timeout; the timeout error is thrown only after more than 15 minutes; and
\* under fair scheduling every run inside the loop leaves it.
C1_PollLoopTimesOut ==
    /\ [][(pc = "poll" /\ now - startTime > 15 * 60 * 1000)
            => /\ cause' = "timeout"
               /\ thrown' = "Generation timed out. Please try again."
               /\ pc' \in {"none", "finishing"}
               /\ error' \in {thrown', FallbackPrefix \o thrown'}]_vars
    /\ [][InPollLoop'
            => now' - startTime' <= 15 * 60 * 1000 + PollDelayMs + MaxLatency]_vars
    /\ [][(cause = "none" /\ cause' = "timeout")
            => now - startTime > 15 * 60 * 1000]_vars
    /\ (InPollLoop ~> ~InPollLoop)

C1_Witness ==
    /\ cause = "timeout"
    /\ seen.status \in {"queued", "running"}
    /\ error \in {TimeoutMessage, FallbackPrefix \o TimeoutMessage}

\* a status body was read by the step (the request itself did not fail)
BodyRead == pc = "fetch" /\ cause' # "fetch_failed"

\* C2: for every status body read in the loop: completed ends the loop with
\* that job's result; failed ends the loop and shows the job's stored error;
\* queued or running goes back to the top of the loop; and no status request
\* is issued once a completed or failed body was read.
C2_PollLoopOutcome ==
    [][/\ (BodyRead /\ seen'.status = "completed")
            => pc' \in {"finishing", "crashed"} /\ data' = seen'.result
       /\ (BodyRead /\ seen'.status = "failed")
            => /\ ~InPollLoop'
               /\ cause' = "job_failed"
               /\ thrown' = IF seen'.error \in {Null, ""}
                              THEN "Generation failed" ELSE seen'.error
               /\ error' \in {thrown', FallbackPrefix \o thrown'}
       /\ (BodyRead /\ seen'.status \in {"queued", "running"})
            => pc' = "poll"
       /\ (pc' = "fetch") => seen'.status \notin Terminal]_vars

C2_Witness ==
    /\ seen.status = "failed"
    /\ seen.error = "Outline generation failed"
    /\ cause = "job_failed"
    /\ error = "Outline generation failed"

\* C3 (as claimed): a failed status request does not end polling; the loop
\* goes on to its next iteration.
C3_FailedFetchIsRetried ==
    [][(pc = "fetch" /\ cause' = "fetch_failed") => pc' = "poll"]_vars

\* what a user can tell from the displayed error
ShownCause(msg) ==
    CASE msg \in {"Generation timed out. Please try again.",
                  FallbackPrefix \o "Generation timed out. Please try again."}
           -> "timeout"
      [] msg \in {"Could not read generation status", "Failed to fetch",
                  FallbackPrefix \o "Could not read generation status",
                  FallbackPrefix \o "Failed to fetch"}
           -> "fetch_failed"
      [] OTHER -> "job_failed"

ResultReceived == cause = "none" /\ data # <<>>

\* C5 (as claimed): the displayed progress is 100 only once a completed
\* generation result has been received from the server.
C5_NoFullProgressBeforeCompletion ==
    generationProgress = 100 => ResultReceived

\* C6: a starter request is sent on the synchronous path only, never gets a
\* job id and never polls, and its full-book, cover-image and audiobook flags
\* are all off.
C6_StarterIsSyncOnly ==
    runPlan = "starter" =>
        /\ path \in {"none", "generate"}
        /\ jobId = ""
        /\ ~InPollLoop
        /\ \A i \in 1..Len(payload) :
             /\ ~payload[i].generate_full_book
             /\ ~payload[i].generate_cover_image
             /\ ~payload[i].generate_audiobook

C6_Witness ==
    /\ runPlan = "starter"
    /\ path = "generate"
    /\ payload # <<>>
    /\ ResultReceived

\* C7 (as claimed): a pro or enterprise request goes on the asynchronous path
\* with full book and cover image on, and audiobook on exactly for enterprise.
C7_PaidPlansAsyncWithStages ==
    \A i \in 1..Len(payload) :
        payload[i].plan \in {"pro", "enterprise"} =>
            /\ path \in {"none", "generate-async"}
            /\ payload[i].generate_full_book
            /\ payload[i].generate_cover_image
            /\ payload[i].generate_audiobook <=> payload[i].plan = "enterprise"

\* C19 (as claimed): the dashboard never holds hardcoded sample data in
\* place of the answer of a failed request: research is never mockResearch
\* and the generated book is never the mock result.
C19_FailuresAreExplicit ==
    /\ research # "mock"
    /\ generatedBook # <<>> => generatedBook[1].title # MockTitle

----------------------------------------------------------------------------
(* public.book_jobs: the table, its policies and its writers *)

\* every value a row can be written with
Rows ==
    [user_id : Users, status : Statuses, progress : ProgressValues,
     step : StepValues, result : MaybeResult, error : ErrorValues]

\* the column checks of the table
RowOk(r) ==
    /\ r.user_id \in Users
    /\ r.status \in {"queued", "running", "completed", "failed"}
    /\ r.progress >= 0 /\ r.progress <= 100

\* a row inserted with the column defaults
DefaultRowRunning(owner) ==
    [user_id |-> owner, status |-> "running", progress |-> 0, step |-> Null,
     result |-> <<>>, error |-> Null]
DefaultRow(owner) ==
    [user_id |-> owner, status |-> "queued", progress |-> 0, step |-> Null,
     result |-> <<>>, error |-> Null]

\* policy "Users can view own book jobs"
CanSelectNothing(uid, r) == FALSE
CanSelect(uid, r) == uid = r.user_id
\* policy "Users can insert own book jobs"
CanInsertAnyOwner(uid, r) == uid \in Users
CanInsert(uid, r) == uid = r.user_id
\* policy "Users can update own book jobs"
CanUpdate(uid, r) == uid = r.user_id

HasJob(j) == jobs[j] # <<>>
Job(j) == jobs[j][1]

\* select * from book_jobs where id = j, as uid: the rows the select policy
\* lets through
SelectJob(uid, j) ==
    IF HasJob(j) /\ CanSelect(uid, Job(j)) THEN <<Job(j)>> ELSE <<>>

\* another user signs in: auth.uid() changes
signIn ==
    \E uid \in Users :
        /\ uid # session
        /\ session' = uid
        /\ UNCHANGED jobs
        /\ UNCHANGED clientVars /\ UNCHANGED backendVars

\* the signed-in user inserts a row through the insert policy
userInsert ==
    \E j \in JobIds, r \in Rows :
        /\ ~HasJob(j)
        /\ RowOk(r)
        /\ CanInsert(session, r)
        /\ jobs' = [jobs EXCEPT ![j] = <<r>>]
        /\ UNCHANGED session
        /\ UNCHANGED clientVars /\ UNCHANGED backendVars

\* the columns of a row and the values the model writes to each
Columns == {"user_id", "status", "progress", "step", "result", "error"}
ColumnValues(col) ==
    CASE col = "user_id" -> Users
      [] col = "status" -> Statuses
      [] col = "progress" -> ProgressValues
      [] col = "step" -> StepValues
      [] col = "result" -> MaybeResult
      [] OTHER -> ErrorValues

\* the signed-in user updates a row through the update policy, one column
\* per statement (no WITH CHECK is given, so the USING expression also checks
\* the new row)
userUpdate ==
    \E j \in JobIds, col \in Columns :
      \E v \in ColumnValues(col) :
        LET r == [Job(j) EXCEPT ![col] = v] IN
        /\ HasJob(j)
        /\ CanUpdate(session, Job(j))
        /\ CanUpdate(session, r)
        /\ RowOk(r)
        /\ r # Job(j)
        /\ jobs' = [jobs EXCEPT ![j] = <<r>>]
        /\ UNCHANGED session
        /\ UNCHANGED clientVars /\ UNCHANGED backendVars

\* the Job Store refuses to modify a job that is completed or failed
Open(j) == HasJob(j) /\ Job(j).status \notin Terminal

\* the table after createJob, updateProgress, completeJob, failJob
Created(j, owner) == [jobs EXCEPT ![j] = <<DefaultRow(owner)>>]
Progressed(j, p, st) ==
    [jobs EXCEPT ![j] =
       <<[Job(j) EXCEPT !.status = "running", !.progress = p, !.step = st]>>]
Completed(j, r) ==
    [jobs EXCEPT ![j] =
       <<[Job(j) EXCEPT !.status = "completed", !.progress = 100,
                        !.result = <<r>>]>>]
FailedKeepingPartialResult(j, e) ==
    [jobs EXCEPT ![j] =
       <<[Job(j) EXCEPT !.status = "failed", !.error = e,
                        !.result = <<[title |-> ServerTitle,
                                      generation_notes |-> <<>>,
                                      plan_used |-> Null,
                                      cover_image_url |-> Null]>>]>>]
Failed(j, e) ==
    [jobs EXCEPT ![j] = <<[Job(j) EXCEPT !.status = "failed", !.error = e]>>]

\* Job Store createJob: a queued job with progress 0 for its owner
createJob ==
    \E owner \in Users, j \in JobIds :
        /\ ~HasJob(j)
        /\ jobs' = Created(j, owner)
        /\ UNCHANGED session
        /\ UNCHANGED clientVars /\ UNCHANGED backendVars

\* Job Store updateProgress, as the Pipeline Runner calls it after a stage
updateProgress ==
    \E j \in JobIds, p \in ProgressValues, st \in StepValues :
        /\ Open(j)
        /\ p >= Job(j).progress
        /\ p < 100
        /\ jobs' = Progressed(j, p, st)
        /\ jobs' # jobs
        /\ UNCHANGED session
        /\ UNCHANGED clientVars /\ UNCHANGED backendVars

\* Job Store completeJob
completeJob ==
    \E j \in JobIds, r \in ResultValues :
        /\ Open(j)
        /\ jobs' = Completed(j, r)
        /\ UNCHANGED session
        /\ UNCHANGED clientVars /\ UNCHANGED backendVars

\* Job Store failJob
failJob ==
    \E j \in JobIds, e \in ErrorValues \ {Null} :
        /\ Open(j)
        /\ jobs' = Failed(j, e)
        /\ UNCHANGED session
        /\ UNCHANGED clientVars /\ UNCHANGED backendVars

JobNext ==
    \/ signIn
    \/ userInsert
    \/ userUpdate
    \/ createJob
    \/ updateProgress
    \/ completeJob
    \/ failJob

JobSpec == Init /\ [][JobNext]_vars

----------------------------------------------------------------------------
(* Claims about the job record *)

\* C8 (as claimed): until a job is completed or failed, no write to its row
\* lowers its progress, so successive reads never see progress decrease.
C8_ProgressNeverDecreases ==
    [][\A j \in JobIds :
          (HasJob(j) /\ jobs'[j] # <<>> /\ Job(j).status \notin Terminal)
            => jobs'[j][1].progress >= Job(j).progress]_vars

\* C9 (as claimed): in every state of a job row, a completed or failed row
\* has exactly one of result and error, a queued or running row has neither.
C9_ResultXorErrorWhenTerminal ==
    \A j \in JobIds :
        HasJob(j) =>
            IF Job(j).status \in Terminal
              THEN (Job(j).result # <<>>) # (Job(j).error # Null)
              ELSE Job(j).result = <<>> /\ Job(j).error = Null

\* C10 (as claimed): once a row is completed or failed, no later write
\* changes its status, progress, step, result or error.
C10_TerminalIsAbsorbing ==
    [][\A j \in JobIds :
          (HasJob(j) /\ Job(j).status \in Terminal) => jobs'[j] = jobs[j]]_vars

\* C12: a row that appears in a step other than the Job Store's createJob,
\* that is a row a user inserts, is owned by the signed-in user; and a
\* select of a job by a user who does not own it returns no row, which is
\* what a select of an id that has no row returns.
C12_OwnerScoped ==
    /\ [][\A j \in JobIds :
            (~HasJob(j) /\ jobs'[j] # <<>>) =>
                (jobs'[j][1].user_id = session \/ createJob)]_vars
    /\ [](\A uid \in Users, j \in JobIds :
            /\ ~HasJob(j) => SelectJob(uid, j) = <<>>
            /\ (HasJob(j) /\ Job(j).user_id # uid) => SelectJob(uid, j) = <<>>)

\* a user is signed in who does not own the row: the owner's select returns
\* it, the signed-in user's select returns nothing
C12_Witness ==
    \E j \in JobIds :
        /\ HasJob(j)
        /\ Job(j).user_id # session
        /\ SelectJob(session, j) = <<>>
        /\ SelectJob(Job(j).user_id, j) = <<Job(j)>>

\* C13 (as claimed): every step that changes the status, progress, result or
\* error of an existing row is a step of the Pipeline Runner, that is one of
\* the Job Store's updateProgress, completeJob and failJob.
C13_OnlyRunnerMutates ==
    [][(\E j \in JobIds :
          /\ HasJob(j)
          /\ jobs'[j] # <<>>
          /\ \E col \in {"status", "progress", "result", "error"} :
                jobs'[j][1][col] # Job(j)[col])
         => (updateProgress \/ completeJob \/ failJob)]_vars

----------------------------------------------------------------------------
(* The generation backend: Plan Gate, Pipeline Runner, status endpoint *)

\* the user the dashboard is signed in as
CurrentUser == session

\* the job_id text of a row
IdText(j) == "job-" \o ToString(j)

\* the stages of the pipeline, in their fixed order
Stages == <<"market", "outline", "chapters", "listing", "cover", "audiobook">>

\* a stage runs when the request's flags include it
StageEnabled(k, req) ==
    CASE Stages[k] = "cover" -> req.generate_cover_image
      [] Stages[k] = "audiobook" -> req.generate_audiobook
      [] OTHER -> TRUE

\* the stages whose failure is degraded to a generation note
Degrades(k) == Stages[k] \in {"cover", "audiobook"}

\* stage index over the number of stages, scaled to 0..99
StageProgress(k) == (k * 99) \div Len(Stages)

StageError(k) == Stages[k] \o " failed"
StageNote(k) == IF Stages[k] = "cover" THEN CoverNote ELSE Stages[k] \o " skipped."

\* the stage flags the plan is entitled to
Entitled(req) ==
    [req EXCEPT
       !.generate_full_book = @ /\ req.plan \in {"pro", "enterprise"},
       !.generate_cover_image = @ /\ req.plan \in {"pro", "enterprise"},
       !.generate_audiobook = @ /\ req.plan = "enterprise"]

\* a run is started for a request
Launched(r, req) ==
    [active |-> r.active + 1, launched |-> r.launched + 1, stage |-> 1,
     notes |-> <<>>, cover |-> Null, req |-> <<Entitled(req)>>,
     outcome |-> "none", error |-> Null]

\* the run after its current stage ended well (ok) or failed
AfterStage(r, ok) ==
    IF ok
      THEN [r EXCEPT !.stage = @ + 1,
                     !.cover = IF Stages[r.stage] = "cover" THEN CoverUrl ELSE @]
      ELSE IF Degrades(r.stage)
        THEN [r EXCEPT !.stage = @ + 1, !.notes = Append(@, StageNote(r.stage))]
        ELSE [r EXCEPT !.active = 0, !.outcome = "failed",
                       !.error = StageError(r.stage)]

\* the run after all its stages
AfterRun(r) == [r EXCEPT !.active = 0, !.outcome = "completed"]

\* the result payload assembled from what the stages left
Assemble(r) ==
    [title |-> ServerTitle, generation_notes |-> r.notes,
     plan_used |-> r.req[1].plan, cover_image_url |-> r.cover]

\* the next identifier the Job Store allocates
IsFreeReusingIds(j) == \A i \in JobIds : j <= i
IsFree(j) == ~HasJob(j) /\ \A i \in JobIds : i < j => HasJob(i)

\* credit deduction for a job; a status read deducts nothing
Deducted(j) == [charged EXCEPT ![j] = @ + 1]
ChargedOnReadOfCompleted(j) ==
    IF Job(j).status = "completed" THEN Deducted(j) ELSE charged
ChargedAfterRead(j) == charged

\* body of the status endpoint for a row
StatusBody(r) ==
    [status |-> r.status, progress |-> r.progress, step |-> r.step,
     result |-> r.result, error |-> r.error]

\* GET /v1/books/jobs/{id} as uid: the body, or not found
GetStatus(uid, id) ==
    IF \E j \in JobIds : IdText(j) = id /\ SelectJob(uid, j) # <<>>
      THEN LET j == CHOOSE i \in JobIds : IdText(i) = id
           IN Ok(StatusBody(Job(j)))
      ELSE NotOk("Job not found")

\* extra time of a status request when the dashboard runs against the backend
FlowLatencies == {MaxSlowPolls * PollDelayMs}

\* the generate-async request reaches no backend, or is refused by it
refuseAsync ==
    /\ \E ans \in {Rejected} \cup {NotOk(e) : e \in ErrTexts} :
         startAsyncAnswered(ans)
    /\ UNCHANGED serverVars

\* the generate-async request is served: the job is created, its runner is
\* launched detached, the job_id is answered (and the answer may be lost)
submitAsync ==
    \E j \in JobIds :
        /\ IsFree(j)
        /\ \E ans \in {Ok(IdText(j)), Rejected} : startAsyncAnswered(ans)
        /\ jobs' = Created(j, CurrentUser)
        /\ runner' = [runner EXCEPT ![j] = Launched(@, payload[1])]
        /\ UNCHANGED <<siteVars, session, charged, inline>>

\* a runner executes the stage it is at and reports to the Job Store
runStage ==
    \E j \in JobIds :
        LET r == runner[j] IN
        /\ r.active > 0
        /\ r.stage <= Len(Stages)
        /\ IF ~StageEnabled(r.stage, r.req[1])
             THEN /\ runner' = [runner EXCEPT ![j].stage = @ + 1]
                  /\ UNCHANGED jobs
             ELSE \E ok \in BOOLEAN :
                    LET r2 == AfterStage(r, ok) IN
                    /\ runner' = [runner EXCEPT ![j] = r2]
                    /\ jobs' = IF ~Open(j) THEN jobs
                               ELSE IF r2.outcome = "failed"
                                 THEN Failed(j, r2.error)
                                 ELSE Progressed(j, StageProgress(r.stage),
                                                 Stages[r.stage])
        /\ UNCHANGED <<siteVars, session, charged, inline>>
        /\ UNCHANGED clientVars

\* a runner past its last stage assembles the result and completes the job;
\* the credit is deducted on the transition into completed
finishRun ==
    \E j \in JobIds :
        LET r == runner[j] IN
        /\ r.active > 0
        /\ r.stage > Len(Stages)
        /\ runner' = [runner EXCEPT ![j] = AfterRun(r)]
        /\ IF Open(j)
             THEN /\ jobs' = Completed(j, Assemble(r))
                  /\ charged' = Deducted(j)
             ELSE UNCHANGED <<jobs, charged>>
        /\ UNCHANGED <<siteVars, session, inline>>
        /\ UNCHANGED clientVars

\* the dashboard's status request reaches no backend
dropStatus ==
    /\ \E ans \in {Rejected} : fetchStatusAnswered(ans, FlowLatencies)
    /\ UNCHANGED serverVars

\* the dashboard's status request is served by the status endpoint
pollStatus ==
    /\ fetchStatusAnswered(GetStatus(CurrentUser, StatusUrl(jobId)),
                           FlowLatencies)
    /\ charged' = IF \E j \in JobIds : IdText(j) = jobId /\ HasJob(j)
                    THEN ChargedAfterRead(CHOOSE j \in JobIds : IdText(j) = jobId)
                    ELSE charged
    /\ UNCHANGED <<siteVars, jobs, session, runner, inline>>

\* any other poller reads the status of a job
rereadStatus ==
    \E uid \in Users, j \in JobIds :
        /\ HasJob(j)
        /\ charged' = IF GetStatus(uid, IdText(j)).kind = "ok"
                        THEN ChargedAfterRead(j) ELSE charged
        /\ UNCHANGED <<siteVars, jobs, session, runner, inline>>
        /\ UNCHANGED clientVars

\* the synchronous request reaches the backend, which starts the pipeline
\* inline
sendSync ==
    /\ pc = "request"
    /\ ~UseAsync(runPlan)
    /\ inline.launched = 0
    /\ inline' = Launched(inline, payload[1])
    /\ UNCHANGED <<siteVars, jobs, session, runner, charged>>
    /\ UNCHANGED clientVars

\* the inline pipeline executes the stage it is at
runInline ==
    /\ inline.active > 0
    /\ IF inline.stage > Len(Stages)
         THEN inline' = AfterRun(inline)
         ELSE IF ~StageEnabled(inline.stage, inline.req[1])
           THEN inline' = [inline EXCEPT !.stage = @ + 1]
           ELSE \E ok \in BOOLEAN : inline' = AfterStage(inline, ok)
    /\ UNCHANGED <<siteVars, jobs, session, runner, charged>>
    /\ UNCHANGED clientVars

\* the synchronous request is answered once the inline pipeline has ended
answerSync ==
    /\ inline.outcome # "none"
    /\ startSyncAnswered(IF inline.outcome = "completed"
                           THEN Ok(<<Assemble(inline)>>)
                           ELSE NotOk(inline.error))
    /\ inline' = NoRun
    /\ UNCHANGED <<siteVars, jobs, session, runner, charged>>

\* the synchronous request reaches no backend, is refused, or its connection
\* is lost while the pipeline runs
refuseSync ==
    /\ \E ans \in {Rejected} \cup {NotOk(e) : e \in ErrTexts} :
         /\ ans.kind = "error" => inline.launched = 0
         /\ startSyncAnswered(ans)
    /\ inline' = NoRun
    /\ UNCHANGED <<siteVars, jobs, session, runner, charged>>

RunnerStep ==
    \/ runStage
    \/ finishRun
    \/ runInline

FlowNext ==
    \/ loadUser
    \/ runResearchStart
    \/ runResearchDone
    \/ backToIdle
    \/ createAnotherBook
    \/ generateBookStart
    \/ animateStep
    \/ getSession
    \/ refuseAsync
    \/ submitAsync
    \/ pollWait
    \/ dropStatus
    \/ pollStatus
    \/ rereadStatus
    \/ sendSync
    \/ answerSync
    \/ refuseSync
    \/ finishDone
    \/ RunnerStep

FlowSpec == Init /\ [][FlowNext]_vars

\* the steps of a generateBook call against the backend
FlowClientStep ==
    \/ animateStep
    \/ getSession
    \/ refuseAsync
    \/ submitAsync
    \/ pollWait
    \/ dropStatus
    \/ pollStatus
    \/ sendSync
    \/ answerSync
    \/ refuseSync
    \/ finishDone

\* a launched pipeline keeps executing; an async function's continuation runs
\* once its await settles
FlowFairSpec == FlowSpec /\ WF_vars(RunnerStep) /\ WF_vars(FlowClientStep)

----------------------------------------------------------------------------
(* Claims about the dashboard running against the backend *)

CoverSkipped(j) ==
    /\ runner[j].launched > 0
    /\ runner[j].outcome # "failed"
    /\ \E i \in 1..Len(runner[j].notes) :
         runner[j].notes[i] = "Cover image skipped."

\* the dashboard has received the result of a job whose cover was skipped
GotDegradedResult ==
    /\ seen.status = "completed"
    /\ data # <<>>
    /\ Len(data[1].generation_notes) > 0

TimedOutOn(j) == cause = "timeout" /\ jobId = IdText(j)

C20_SyncAnswerIsResult ==
    /\ [][(inline.launched > 0 /\ inline' = NoRun /\ thrown' = Null) =>
            /\ inline.outcome = "completed"
            /\ inline.stage > Len(Stages)
            /\ inline.cover = Null
            /\ path' = "generate"
            /\ data' = <<Assemble(inline)>>
            /\ pc' = "finishing"]_vars
    /\ [][(path' = "generate" /\ data' # data /\ cause' = "none") =>
            inline.outcome = "completed"]_vars
    /\ [](path = "generate" =>
            /\ jobId = ""
            /\ seen = NoBody
            /\ pc \notin {"poll", "fetch"})
    /\ [](inline.launched > 0 => pc = "request" /\ ~UseAsync(runPlan))

\* the dashboard holds the result of a synchronous request
C20_Witness ==
    /\ path = "generate"
    /\ step = "done"
    /\ cause = "none"
    /\ data # <<>>
    /\ data[1].title = ServerTitle
    /\ data[1].plan_used = "starter"
    /\ jobId = ""

----------------------------------------------------------------------------
(* The requests of one generateBook call *)

\* C24: one generateBook invocation sends at most one job-creation request,
\* and every status fetch it issues is for the job identifier that request
\* returned.
C24_OneJobPerInvocation ==
    /\ sent.posts <= 1
    /\ sent.polled # <<>> =>
         /\ sent.posts = 1
         /\ path = "generate-async"
         /\ ~MissingJobId(jobId)
         /\ sent.polled[1] = jobId

C24_Witness ==
    /\ pc = "poll"
    /\ sent.posts = 1
    /\ sent.polled = <<jobId>>
    /\ seen.status = "running"

\* C25: within one generateBook run every value written to the progress
\* display, by the step animation or by a polled job status, is greater than
\* or equal to the value displayed before it.
C25_DisplayedProgressNeverDecreases ==
    [][(pc = "anim" \/ pc = "fetch") =>
         generationProgress' >= generationProgress]_vars

----------------------------------------------------------------------------
(* The route proxy *)

\* A pathname is a sequence of pieces of text, so that startsWith is the
\* prefix order on sequences. No piece that begins with a slash is the
\* beginning of another.
Chunks ==
    {"/dashboard", "/library", "/settings", "/login", "/register",
     "/_next/static", "/books", "/cover.png", "s"}

\* the pieces that begin a path segment
Segments == Chunks \ {"s"}

\* longest pathname requested, in pieces
MaxChunks == 2

Pathnames ==
    {p \in UNION {[1..n -> Chunks] : n \in 1..MaxChunks} : p[1] \in Segments}

\* pathname.startsWith(p)
StartsWith(pathname, p) ==
    /\ Len(pathname) >= Len(p)
    /\ SubSeq(pathname, 1, Len(p)) = p

protectedPaths == {<<"/dashboard">>, <<"/library">>, <<"/settings">>}
authPaths == {<<"/login">>, <<"/register">>}

\* loginUrl.pathname
LoginPathnameProtected == <<"/settings">>
LoginPathname == <<"/login">>

\* config.matcher: the proxy runs for every pathname but the static ones and
\* those that end in an image extension
Matched(pathname) ==
    /\ pathname[1] # "/_next/static"
    /\ pathname[Len(pathname)] # "/cover.png"

\* the response to a request that goes on to the application
Passed(request) ==
    [kind |-> "next", pathname |-> request.pathname,
     redirect |-> request.redirect]

proxy(request) ==
    LET pathname == request.pathname
        isProtected == \E p \in protectedPaths : StartsWith(pathname, p)
        isAuthPage == \E p \in authPaths : StartsWith(pathname, p)
    IN  IF isProtected /\ ~request.user
          THEN [kind |-> "redirect", pathname |-> LoginPathname,
                redirect |-> <<pathname>>]
          ELSE IF isAuthPage /\ request.user
                 THEN [kind |-> "redirect", pathname |-> <<"/dashboard">>,
                       redirect |-> request.redirect]
                 ELSE Passed(request)

\* a page request as the server answers it, after hops redirects
Answered(request, hops) ==
    [route |-> "page", request |-> request, hops |-> hops,
     response |-> IF Matched(request.pathname)
                    THEN proxy(request) ELSE Passed(request)]

\* a browser, signed in or not, requests a page
visit ==
    /\ \E pathname \in Pathnames, user \in BOOLEAN :
         exchange' = Answered([pathname |-> pathname, user |-> user,
                               redirect |-> <<>>], 0)
    /\ UNCHANGED <<clientVars, jobs, session, runner, charged, inline,
                   profiles, subscriptions>>

\* redirects followed in a row
MaxHops == 3

\* the browser follows a redirect with the same cookies
followRedirect ==
    /\ exchange.route = "page"
    /\ exchange.response.kind = "redirect"
    /\ exchange.hops < MaxHops
    /\ exchange' = Answered([pathname |-> exchange.response.pathname,
                             user |-> exchange.request.user,
                             redirect |-> exchange.response.redirect],
                            exchange.hops + 1)
    /\ UNCHANGED <<clientVars, jobs, session, runner, charged, inline,
                   profiles, subscriptions>>

ProxyNext ==
    \/ visit
    \/ followRedirect

ProxySpec == Init /\ [][ProxyNext]_vars

\* pathname is the route p or a route below it
Subroute(pathname, p) ==
    /\ StartsWith(pathname, p)
    /\ Len(pathname) > Len(p) => pathname[Len(p) + 1] \in Segments

\* C21: every request without an authenticated user to /dashboard, /library
\* or /settings, or to a subroute of them, is redirected to /login with the
\* original path in the redirect parameter, and is not passed on to the page.
C21_ProtectedRoutesRedirect ==
    (/\ exchange.route = "page"
     /\ ~exchange.request.user
     /\ \E p \in protectedPaths : Subroute(exchange.request.pathname, p))
    => exchange.response = [kind |-> "redirect", pathname |-> <<"/login">>,
                            redirect |-> <<exchange.request.pathname>>]

\* C30: the target of a redirect the proxy issues is passed through without
\* a further redirect under the same authentication state, for every
\* pathname and either authentication state.
C30_NoRedirectLoop ==
    (exchange.route = "page" /\ exchange.hops >= 1)
    => exchange.response.kind = "next"

C30_Witness ==
    /\ exchange.route = "page"
    /\ exchange.hops = 1
    /\ exchange.request.pathname = <<"/login">>
    /\ exchange.request.redirect = <<<<"/settings", "/books">>>>
    /\ exchange.response.kind = "next"

----------------------------------------------------------------------------
(* Billing: the Stripe webhook, the monthly credit reset, credit use *)

PLAN_CREDITS == [starter |-> 1, pro |-> 5, enterprise |-> 20]

\* PLAN_CREDITS[plan] ?? 1
CreditsForAnyPlanTwenty(p) == 20
CreditsFor(p) == IF p \in DOMAIN PLAN_CREDITS THEN PLAN_CREDITS[p] ELSE 1

\* profiles: check (plan in ('starter', 'pro', 'enterprise'))
ProfileOk(r) == r.plan \in Plans

\* update profiles set ... where id = userId; a row that fails the check
\* constraint makes the statement fail, and the handlers do not look at the
\* error of a statement
SetProfile(P, userId, r) == IF ProfileOk(r) THEN [P EXCEPT ![userId] = r] ELSE P

\* the users that have a Stripe customer, and its identifier
Subscribers == {"u1"}
Customer(u) == "cus_" \o u

\* one event per case of the handler: fields the handler does not read for
\* the event's type have one value
Canonical(e) ==
    /\ e.type = "customer.subscription.updated" \/ e.status = "active"
    /\ e.type \in {"customer.subscription.deleted", "invoice.payment_failed"}
         => e.plan = Null
    /\ e.type \in {"checkout.session.completed",
                   "customer.subscription.updated"}
         => (e.user = Null) = (e.plan = Null)
    /\ e.type = "invoice.payment_failed" => e.user # Null

\* the events Stripe sends: the metadata of the session or subscription
\* (supabase_user_id and plan, Null when missing), the subscription and its
\* status; for invoice.payment_failed user names the invoice's customer
Events ==
    {e \in [type : {"checkout.session.completed",
                    "customer.subscription.updated",
                    "customer.subscription.deleted",
                    "invoice.payment_failed"},
            user : Subscribers \cup {Null},
            plan : Plans \cup {"gold", Null},
            subscription : SubscriptionIds,
            status : {"active", "past_due"}] : Canonical(e)}

\* the tables as a handler sees them, with the statements it has issued
Tables(P, S) == [profiles |-> P, subscriptions |-> S, queries |-> 0]

activatePlan(T, userId, newPlan, subscriptionId, customerId) ==
    [profiles |->
         SetProfile(T.profiles, userId,
                    [plan |-> newPlan,
                     credits_remaining |-> CreditsFor(newPlan),
                     stripe_customer_id |-> customerId]),
     subscriptions |->
         [T.subscriptions EXCEPT ![subscriptionId] =
              <<[user_id |-> userId, stripe_customer_id |-> customerId,
                 plan |-> newPlan, status |-> "active"]>>],
     queries |-> T.queries + 2]

\* update subscriptions set status = st where stripe_subscription_id = s
SetStatus(S, s, st) ==
    IF S[s] = <<>> THEN S ELSE [S EXCEPT ![s] = <<[@[1] EXCEPT !.status = st]>>]

\* the switch on event.type
Handled(T, e) ==
    CASE e.type = "checkout.session.completed" ->
           IF e.user = Null \/ e.plan = Null
             THEN T
             ELSE [activatePlan(T, e.user, e.plan, e.subscription,
                                Customer(e.user))
                     EXCEPT !.queries = @ + 1]
      [] e.type = "customer.subscription.updated" ->
           IF e.user = Null \/ e.plan = Null
             THEN T
             ELSE LET S0 == T.subscriptions
                      S1 == IF S0[e.subscription] = <<>>
                              THEN S0
                              ELSE [S0 EXCEPT ![e.subscription] =
                                      <<[@[1] EXCEPT !.plan = e.plan,
                                                     !.status = e.status]>>]
                  IN  IF e.status = "active"
                        THEN [profiles |->
                                  SetProfile(T.profiles, e.user,
                                      [T.profiles[e.user] EXCEPT
                                          !.plan = e.plan,
                                          !.credits_remaining =
                                              CreditsFor(e.plan)]),
                              subscriptions |-> S1,
                              queries |-> T.queries + 3]
                        ELSE [T EXCEPT !.subscriptions = S1,
                                       !.queries = @ + 1]
      [] e.type = "customer.subscription.deleted" ->
           IF e.user = Null
             THEN T
             ELSE [profiles |->
                       SetProfile(T.profiles, e.user,
                           [T.profiles[e.user] EXCEPT
                               !.plan = "starter", !.credits_remaining = 0]),
                   subscriptions |->
                       SetStatus(T.subscriptions, e.subscription, "canceled"),
                   queries |-> T.queries + 3]
      [] OTHER ->
           LET customerId == Customer(e.user)
               found == \E u \in Users :
                          T.profiles[u].stripe_customer_id = customerId
               S0 == T.subscriptions
           IN  IF found
                 THEN [T EXCEPT
                         !.subscriptions =
                             [s \in SubscriptionIds |->
                                IF S0[s] # <<>>
                                   /\ S0[s][1].stripe_customer_id = customerId
                                  THEN <<[S0[s][1] EXCEPT
                                            !.status = "past_due"]>>
                                  ELSE S0[s]],
                         !.queries = @ + 2]
                 ELSE [T EXCEPT !.queries = @ + 1]

\* the stripe-signature header (Null when missing) and whether
\* STRIPE_WEBHOOK_SECRET is set: constructEvent accepts the body only when it
\* was signed with the secret
VerifiedAnySignature(req) == req.sig # Null
Verified(req) == req.sig = "signed" /\ req.secret

\* the requests the webhook endpoint receives; a body that is not verified
\* is never parsed, so one event stands for it
WebhookRequests ==
    {[sig |-> "signed", secret |-> TRUE, event |-> e] : e \in Events}
    \cup {[sig |-> g, secret |-> c,
           event |-> [type |-> "checkout.session.completed", user |-> "u1",
                      plan |-> "pro", subscription |-> "sub_1",
                      status |-> "active"]] :
            g \in {Null, "forged", "signed"}, c \in BOOLEAN}

\* POST /api/webhooks/stripe; stripeUp is whether subscriptions.retrieve
\* answers
Delivered(req, stripeUp, attempt) ==
    LET T0 == Tables(profiles, subscriptions)
        e == req.event
        retrieves == /\ e.type = "checkout.session.completed"
                     /\ e.user # Null
                     /\ e.plan # Null
        failed == retrieves /\ ~stripeUp
        T1 == IF Verified(req) /\ ~failed THEN Handled(T0, e) ELSE T0
    IN  /\ profiles' = T1.profiles
        /\ subscriptions' = T1.subscriptions
        /\ exchange' =
             [route |-> "webhook", request |-> req, attempt |-> attempt,
              status |-> IF ~Verified(req) THEN 400
                         ELSE IF failed THEN 500 ELSE 200,
              queries |-> T1.queries]
        /\ UNCHANGED <<clientVars, jobs, session, runner, charged, inline>>

stripeWebhook ==
    \E req \in WebhookRequests, stripeUp \in BOOLEAN :
        Delivered(req, stripeUp, 1)

\* Stripe delivers the event it delivered last once more
redeliverWebhook ==
    /\ exchange.route = "webhook"
    /\ exchange.attempt = 1
    /\ exchange.status = 200
    /\ Delivered(exchange.request, TRUE, 2)

\* the requests the reset endpoint receives: whether CRON_SECRET is set, and
\* whether each header carries it
CronRequests ==
    [configured : BOOLEAN,
     authorization : {Null, "Bearer s3cret"},
     cronSecret : {Null, "s3cret"}]

isAuthorized(req) ==
    LET secret == IF req.configured THEN "s3cret" ELSE Null
    IN  IF secret = Null
          THEN TRUE
          ELSE \/ req.cronSecret # Null /\ req.cronSecret = secret
               \/ req.authorization = "Bearer " \o secret

\* Object.entries(PLAN_CREDITS), in insertion order
PlanOrderWithoutEnterprise == <<"starter", "pro">>
PlanOrder == <<"starter", "pro", "enterprise">>

\* the first n update statements of the loop
ResetCredits(P, n) ==
    [u \in Users |->
       IF \E i \in 1..Min(n, Len(PlanOrder)) : P[u].plan = PlanOrder[i]
         THEN [P[u] EXCEPT !.credits_remaining = PLAN_CREDITS[P[u].plan]]
         ELSE P[u]]

\* POST /api/cron/reset-credits; statement failing (0: none) returns an error
resetCredits ==
    \E req \in CronRequests, failing \in 0..3 :
        /\ failing > 0 => isAuthorized(req)
        /\ profiles' = IF ~isAuthorized(req) THEN profiles
                       ELSE IF failing > 0
                              THEN ResetCredits(profiles, failing - 1)
                              ELSE ResetCredits(profiles, Len(PlanOrder))
        /\ exchange' = [route |-> "reset-credits", request |-> req,
                        status |-> IF ~isAuthorized(req) THEN 401
                                   ELSE IF failing > 0 THEN 500 ELSE 200]
        /\ UNCHANGED <<clientVars, jobs, session, runner, charged, inline,
                       subscriptions>>

\* credits a profile may spend below its plan's allowance
MaxSpend == 2

\* a generated book costs its user one credit
consumeCredit ==
    \E u \in Users :
        /\ profiles[u].credits_remaining > 0
        /\ profiles[u].credits_remaining
             > PLAN_CREDITS[profiles[u].plan] - MaxSpend
        /\ profiles' = [profiles EXCEPT ![u].credits_remaining = @ - 1]
        /\ UNCHANGED <<clientVars, jobs, session, runner, charged, inline,
                       subscriptions, exchange>>

BillingNext ==
    \/ stripeWebhook
    \/ redeliverWebhook
    \/ resetCredits
    \/ consumeCredit

BillingSpec == Init /\ [][BillingNext]_vars

C23_ResetRestoresAllowance ==
    [][(/\ exchange' # exchange
        /\ exchange'.route = "reset-credits"
        /\ exchange'.status = 200)
       => \A u \in Users :
            /\ profiles'[u].plan = "starter"
                 => profiles'[u].credits_remaining = 1
            /\ profiles'[u].plan = "pro"
                 => profiles'[u].credits_remaining = 5
            /\ profiles'[u].plan = "enterprise"
                 => profiles'[u].credits_remaining = 20]_vars

C23_Witness ==
    /\ exchange.route = "reset-credits"
    /\ exchange.status = 200
    /\ exchange.request.configured
    /\ profiles["u1"].plan = "enterprise"
    /\ profiles["u1"].credits_remaining = 20
    /\ profiles["u2"].plan = "starter"
    /\ profiles["u2"].credits_remaining = 1

\* C26: handling customer.subscription.deleted puts the profile on plan
\* starter with 0 credits, and no customer.subscription.updated event for
\* that subscription that is delivered afterwards puts the profile back on
\* a paid plan or refills its credits.
C26_DeletedStaysDeleted ==
    /\ [][(/\ exchange' # exchange
           /\ exchange'.route = "webhook"
           /\ exchange'.status = 200
           /\ exchange'.request.event.type = "customer.subscription.deleted"
           /\ exchange'.request.event.user # Null)
          => (/\ profiles'[exchange'.request.event.user].plan = "starter"
              /\ profiles'[exchange'.request.event.user].credits_remaining
                   = 0)]_vars
    /\ [][\A s \in SubscriptionIds :
            (/\ subscriptions[s] # <<>>
             /\ subscriptions[s][1].status = "canceled"
             /\ exchange' # exchange
             /\ exchange'.route = "webhook"
             /\ exchange'.status = 200
             /\ exchange'.request.event.type = "customer.subscription.updated"
             /\ exchange'.request.event.subscription = s)
            => (/\ profiles'[subscriptions[s][1].user_id].plan = "starter"
                /\ profiles'[subscriptions[s][1].user_id].credits_remaining
                     <= profiles[subscriptions[s][1].user_id]
                          .credits_remaining)]_vars

\* C27: a webhook request with a missing signature header, a missing webhook
\* secret, or a signature that fails verification is answered 400, and it
\* reads and changes no profile or subscription row.
C27_UnverifiedWebhookRejected ==
    [][(/\ exchange' # exchange
        /\ exchange'.route = "webhook"
        /\ \/ exchange'.request.sig = Null
           \/ ~exchange'.request.secret
           \/ exchange'.request.sig = "forged")
       => (/\ exchange'.status = 400
           /\ exchange'.queries = 0
           /\ UNCHANGED <<profiles, subscriptions>>)]_vars

C27_Witness ==
    /\ exchange.route = "webhook"
    /\ exchange.request.sig = "forged"
    /\ exchange.request.secret
    /\ exchange.status = 400
    /\ profiles["u1"].plan = "starter"
    /\ subscriptions["sub_1"] = <<>>

\* C28: handling the same checkout.session.completed,
\* customer.subscription.updated or customer.subscription.deleted event a
\* second time leaves the profiles and subscriptions tables as they were
\* after it was handled once, also when credits were consumed between the
\* two deliveries.
C28_RedeliveryIdempotent ==
    [][(/\ exchange.route = "webhook"
        /\ exchange'.route = "webhook"
        /\ exchange.attempt = 1
        /\ exchange'.attempt = 2
        /\ exchange'.request.event.type # "invoice.payment_failed")
       => UNCHANGED <<profiles, subscriptions>>]_vars

\* C29: in every state reached by Stripe webhook events and monthly reset
\* runs, with generation only decreasing credits, each profile's
\* credits_remaining is at most the monthly allowance of the plan stored on
\* that profile (starter 1, pro 5, enterprise 20).
C29_CreditsWithinAllowance ==
    \A u \in Users :
        /\ profiles[u].plan \in DOMAIN PLAN_CREDITS
        /\ profiles[u].credits_remaining <= PLAN_CREDITS[profiles[u].plan]

C29_Witness ==
    /\ exchange.route = "webhook"
    /\ exchange.attempt = 2
    /\ exchange.request.event.plan = "gold"
    /\ profiles["u1"].plan = "pro"
    /\ profiles["u1"].credits_remaining = 5
    /\ profiles["u2"].credits_remaining = 0

====
